---- MODULE Spec2Model ----
(***************************************************************************)
(* Model of the NoMoreLeaks master EdgeWorker (responseProvider and its    *)
(* helpers keyExists, originRequest, registerPositiveMatch, mapCredentials,*)
(* removeUnsafeHeaders, and utils.ts: hasNestedProperty, getNestedValue,   *)
(* isValidBody).                                                           *)
(*                                                                         *)
(* One inbound request runs through the pipeline.  Every `await` of the    *)
(* code is a suspension point and so the boundary between two actions; the *)
(* synchronous code between two awaits is one action.                      *)
(***************************************************************************)
EXTENDS Integers, Sequences, FiniteSets, TLC

(***************************************************************************)
(* Bounds                                                                  *)
(***************************************************************************)
\* longest username / password string (and longest array) in the bodies of Requests
MaxLen == 3

(***************************************************************************)
(* JavaScript values.  Every value is a record [t, s, f]:                  *)
(*   t  the type tag, s  the characters of a string (or the rendering of a *)
(*   number / boolean), f  the own properties of an object or array.       *)
(***************************************************************************)
NoProps == [k \in {} |-> 0]

Undefined == [t |-> "undefined", s |-> <<>>, f |-> NoProps]
JNull == [t |-> "null", s |-> <<>>, f |-> NoProps]
JStr(chars) == [t |-> "str", s |-> chars, f |-> NoProps]
JNum(digits) == [t |-> "num", s |-> digits, f |-> NoProps]
JObj(props) == [t |-> "obj", s |-> <<>>, f |-> props]

IndexKeys == <<"0", "1", "2", "3", "4", "5">>

\* an array of n elements, every element the string "a"
JArr(n) ==
  [t |-> "arr", s |-> <<>>,
   f |-> [k \in {IndexKeys[i] : i \in 1..n} |-> JStr(<<"a">>)]]

\* JavaScript truthiness: undefined, null, "" and 0 are falsy
Truthy(v) ==
  CASE v.t \in {"undefined", "null"} -> FALSE
    [] v.t = "str" -> v.s # <<>>
    [] v.t = "num" -> v.s # <<"0">>
    [] OTHER -> TRUE

\* typeof v === "object" || Array.isArray(v)
IsObjectType(v) == v.t \in {"obj", "arr", "null"}

\* does reading v.length raise a TypeError
LengthThrows(v) == v.t \in {"undefined", "null"}

\* v.length > n, for a v on which .length does not throw; a value without
\* a length gives undefined, and undefined > n is false
LengthGreater(v, n) ==
  CASE v.t = "str" -> Len(v.s) > n
    [] v.t = "arr" -> Cardinality(DOMAIN v.f) > n
    [] OTHER -> FALSE

\* key in acc
KeyIn(key, acc) ==
  \/ key \in DOMAIN acc.f
  \/ acc.t = "arr" /\ key = "length"

\* acc[key]
Prop(acc, key) ==
  IF key \in DOMAIN acc.f THEN acc.f[key]
  ELSE IF acc.t = "arr" /\ key = "length"
       THEN JNum(<<IndexKeys[Cardinality(DOMAIN acc.f) + 1]>>)
       ELSE Undefined

(***************************************************************************)
(* constants.ts                                                            *)
(***************************************************************************)
\* the field paths, already split on "."
UNAME == <<"username">>
PASSWD == <<"password">>
NO_MORE_LEAKS_HEADER == "x-nomoreleaks"
MinUnameLen == 1
MinPasswdLen == 2
UuidLen == 36

(***************************************************************************)
(* utils.ts                                                                *)
(***************************************************************************)
RECURSIVE SplitTokens(_, _, _)
\* the text of a path is a sequence of tokens, "." being the dot; the
\* segments between the dots, left to right
SplitTokens(tokens, current, done) ==
  IF tokens = <<>> THEN Append(done, current)
  ELSE IF Head(tokens) = "."
       THEN SplitTokens(Tail(tokens), <<>>, Append(done, current))
       ELSE SplitTokens(Tail(tokens), Append(current, Head(tokens)), done)

\* the key a segment spells
KeyOf(segment) ==
  CASE segment = <<>> -> ""
    [] Len(segment) = 1 -> segment[1]
    [] segment = <<"users", "[0]">> -> "users[0]"
    [] OTHER -> "?"

\* path.split(".")
Split(pathText) ==
  LET segments == SplitTokens(pathText, <<>>, <<>>)
  IN  [i \in 1..Len(segments) |-> KeyOf(segments[i])]

RECURSIVE ReduceHas(_, _)
\* the reducer of hasNestedProperty, folded over the keys of the path
ReduceHas(acc, path) ==
  IF path = <<>> THEN acc
  ELSE ReduceHas(IF Truthy(acc) /\ IsObjectType(acc) /\ KeyIn(Head(path), acc)
                 THEN Prop(acc, Head(path))
                 ELSE Undefined,
                 Tail(path))

hasNestedProperty(obj, path) == ReduceHas(obj, path) # Undefined

\* an exception that leaves a function, in the place of its return value
Thrown == [t |-> "thrown", s |-> <<>>, f |-> NoProps]

RECURSIVE getNestedValue_NoGuard(_, _)
\* the reducer without its guard: reading a property of null or undefined
\* raises a TypeError
getNestedValue_NoGuard(acc, path) ==
  IF path = <<>> \/ acc = Thrown THEN acc
  ELSE getNestedValue_NoGuard(IF acc.t \in {"null", "undefined"} THEN Thrown
                              ELSE Prop(acc, Head(path)),
                              Tail(path))

RECURSIVE getNestedValue(_, _)
getNestedValue(acc, path) ==
  IF path = <<>> THEN acc
  ELSE getNestedValue(IF Truthy(acc) /\ IsObjectType(acc)
                      THEN Prop(acc, Head(path))
                      ELSE Undefined,
                      Tail(path))

\* the outcome of isValidBody: "true", "false", or "throw" when reading
\* .length of null raises a TypeError.  && evaluates left to right and
\* stops at the first falsy operand.
isValidBody(body) ==
  LET hasBody == body.t # "null" /\ IsObjectType(body)
      hasCredentials ==
        hasBody /\ hasNestedProperty(body, UNAME)
                /\ hasNestedProperty(body, PASSWD)
      u == getNestedValue(body, UNAME)
      p == getNestedValue(body, PASSWD)
  IN  IF ~hasCredentials THEN "false"
      ELSE IF LengthThrows(u) THEN "throw"
      ELSE IF ~LengthGreater(u, MinUnameLen) THEN "false"
      ELSE IF LengthThrows(p) THEN "throw"
      ELSE IF LengthGreater(p, MinPasswdLen) THEN "true" ELSE "false"

(***************************************************************************)
(* The inbound request and the answers of the environment                  *)
(***************************************************************************)
Chars == {"a", "A"}

StringsUpTo(n) == UNION {[1..k -> Chars] : k \in 0..n}

\* a text is what the request stream holds: the text of a JSON value, a
\* form-encoded list of key=value pairs, or text that is neither; kind
\* "null" is the JavaScript null of an unset formBody
Text(k, v, pairs) == [k |-> k, v |-> v, pairs |-> pairs]
NullText == Text("null", JNull, <<>>)
GarbageText == Text("garbage", JNull, <<>>)

\* the values a username or password field holds in a JSON body
FieldValues ==
  {JNull, JNum(<<"7">>), JArr(MaxLen)} \cup {JStr(s) : s \in StringsUpTo(MaxLen)}

\* Undefined stands for "the key is not in the object"
CredentialObject(u, p) ==
  JObj([k \in ({"username" : x \in {u} \ {Undefined}}
               \cup {"password" : x \in {p} \ {Undefined}})
          |-> IF k = "username" THEN u ELSE p])

JsonBodies ==
  {CredentialObject(u, p) : u \in FieldValues \cup {Undefined},
                            p \in FieldValues \cup {Undefined}}
    \cup {JNull, JNum(<<"0">>), JStr(<<"a">>), JArr(1)}

\* "absent" marks a key that the form does not carry
FormField(key, val) ==
  IF val = <<"absent">> THEN <<>> ELSE <<[key |-> key, val |-> val]>>

FormTexts ==
  {Text("form", JNull, FormField("username", u) \o FormField("password", p)) :
     u \in StringsUpTo(MaxLen) \cup {<<"absent">>},
     p \in StringsUpTo(MaxLen) \cup {<<"absent">>}}

RawBodies ==
  {Text("json", v, <<>>) : v \in JsonBodies} \cup FormTexts \cup {GarbageText}

\* the content-type header as sent; "" stands for no content-type header
ContentTypes ==
  {"", "application/json", "Application/JSON; charset=UTF-8",
   "application/x-www-form-urlencoded", "text/plain"}

\* String.prototype.toLowerCase on the content types above
ToLowerCase(ct) ==
  IF ct = "Application/JSON; charset=UTF-8"
  THEN "application/json; charset=utf-8" ELSE ct

StartsWith(ct, prefix) ==
  \/ ct = prefix
  \/ prefix = "application/json" /\ ct = "application/json; charset=utf-8"

\* PMUSER_AUTH_HEADER: not set, set to the empty string, or set
AuthVariables == {Undefined, JStr(<<>>), JStr(<<"B", "a", "s", "i", "c">>)}

\* the inbound headers besides content-type, named as the client sent them
InboundHeaders ==
  { [h \in {"accept"} |-> "*/*"],
    [h \in {"accept", "Host", "Content-Length", "x-nomoreleaks"} |->
       CASE h = "accept" -> "*/*"
         [] h = "Host" -> "login.example.com"
         [] h = "Content-Length" -> "42"
         [] OTHER -> "true"] }

WithContentType(headers, ct) ==
  IF ct = "" THEN headers
  ELSE [h \in DOMAIN headers \cup {"Content-Type"} |->
          IF h = "Content-Type" THEN ct ELSE headers[h]]

\* a header name in lower case
LowerName(h) ==
  CASE h = "Host" -> "host"
    [] h = "Content-Length" -> "content-length"
    [] h = "Content-Type" -> "content-type"
    [] h = "Set-Cookie" -> "set-cookie"
    [] h = "Vary" -> "vary"
    [] h = "Proxy-Authenticate" -> "proxy-authenticate"
    [] OTHER -> h

\* request.getHeaders() / originResponse.getHeaders(): the EdgeWorkers API
\* hands the headers over as an object keyed by the lower-case header name
GetHeaders(headers) ==
  [n \in {LowerName(h) : h \in DOMAIN headers} |->
     headers[CHOOSE h \in DOMAIN headers : LowerName(h) = n]]

Requests ==
  {[method |-> "POST", host |-> "login.example.com",
    url |-> "/login", headers |-> WithContentType(hs, ct),
    raw |-> raw, authVar |-> a] :
      hs \in InboundHeaders, ct \in ContentTypes,
      raw \in RawBodies, a \in AuthVariables}

UUID == JStr([i \in 1..UuidLen |-> "a"])
UUID2 == JStr([i \in 1..UuidLen |-> "b"])

\* the JSON documents the lookup service answers with
LookupJson ==
  {JNull, JObj(NoProps),
   JObj([k \in {"id"} |-> JNull]),
   JObj([k \in {"id"} |-> UUID]),
   JObj([k \in {"id"} |-> UUID2]),
   JObj([k \in {"id"} |-> JObj([k2 \in {"length"} |-> JNum(<<"3", "6">>)])]),
   JObj([k \in {"id"} |-> JStr(<<"s", "h", "o", "r", "t">>)]),
   JObj([k \in {"id"} |-> JNum(<<"7">>)]),
   JObj([k \in {"id"} |-> JObj([k2 \in {"id"} |-> UUID])])}

\* the answers to the lookup sub-request; "error" is a rejected httpRequest
LookupAnswers ==
  {[kind |-> "error", ok |-> FALSE, text |-> NullText],
   [kind |-> "response", ok |-> FALSE, text |-> GarbageText],
   [kind |-> "response", ok |-> TRUE, text |-> GarbageText]}
    \cup {[kind |-> "response", ok |-> TRUE, text |-> Text("json", v, <<>>)] :
            v \in LookupJson}

\* the headers of the origin's response, named as the origin sent them
OriginResponseHeaders ==
  [h \in {"Set-Cookie", "Content-Length", "Vary", "Proxy-Authenticate"} |->
     CASE h = "Set-Cookie" -> "sid=1"
       [] h = "Content-Length" -> "17"
       [] h = "Vary" -> "accept-encoding"
       [] OTHER -> "Basic"]

\* the answers to the origin sub-request: a rejected httpRequest, a promise
\* resolved without a response object, or a response
OriginAnswers ==
  {[kind |-> "error", status |-> 0, ok |-> FALSE,
    headers |-> NoProps, body |-> "none"],
   [kind |-> "empty", status |-> 0, ok |-> FALSE,
    headers |-> NoProps, body |-> "none"]}
    \cup {[kind |-> "response", status |-> st, ok |-> (st = 200),
           headers |-> OriginResponseHeaders, body |-> "origin-body"] :
            st \in {200, 401}}

(***************************************************************************)
(* Helpers of main.ts                                                      *)
(***************************************************************************)
\* request.json(): the parsed value, or a rejection for text that is not JSON
JsonParses(text) == text.k = "json"
ParseJson(text) == text.v

\* new URLSearchParams(formBody): the key=value pairs of the text; a text
\* that is not form-encoded carries neither configured key
URLSearchParams(text) == IF text.k = "form" THEN text.pairs ELSE <<>>

\* params.get(key): the first value of the key, or null
ParamsGet(params, key) ==
  IF \E i \in 1..Len(params) : params[i].key = key
  THEN JStr(params[CHOOSE i \in 1..Len(params) :
                     /\ params[i].key = key
                     /\ \A j \in 1..(i - 1) : params[j].key # key].val)
  ELSE JNull

OrEmpty(v) == IF Truthy(v) THEN v ELSE JStr(<<>>)

mapCredentials(params) ==
  JObj([k \in {"username", "password"} |-> OrEmpty(ParamsGet(params, k))])

\* the list with one name not in lower case, deleted as written
HEADERS_TO_REMOVE_MixedCase ==
  {"host", "content-length", "transfer-encoding", "connection", "vary",
   "accept-encoding", "content-encoding", "keep-alive", "Proxy-Authenticate",
   "proxy-authorization", "te", "trailers", "upgrade"}

HEADERS_TO_REMOVE ==
  {"host", "content-length", "transfer-encoding", "connection", "vary",
   "accept-encoding", "content-encoding", "keep-alive", "proxy-authenticate",
   "proxy-authorization", "te", "trailers", "upgrade"}

\* delete headers[name] for every name of HEADERS_TO_REMOVE
removeUnsafeHeaders(headers) ==
  [h \in DOMAIN headers \ HEADERS_TO_REMOVE |-> headers[h]]

\* String(id): the text of the identifier itself
InformValue_StringOfId(id) == IF Truthy(id) THEN "true" ELSE "null"

\* String(id ? true : false)
InformValue(id) == IF Truthy(id) THEN "true" ELSE "false"

\* the inbound headers spread over the injected ones: a detection header
\* of the client survives
originRequest_InboundWins(req, reqBody, id) ==
  LET cleaned == removeUnsafeHeaders(GetHeaders(req.headers))
  IN  [url |-> req.url, method |-> req.method, body |-> reqBody,
       headers |->
         [h \in DOMAIN cleaned \cup {"ew-bypass", NO_MORE_LEAKS_HEADER} |->
            IF h \in DOMAIN cleaned THEN cleaned[h]
            ELSE IF h = NO_MORE_LEAKS_HEADER THEN InformValue(id)
            ELSE "true"]]

\* originRequest without line 215: the bypass header is not set
originRequest_NoBypass(req, reqBody, id) ==
  LET cleaned == removeUnsafeHeaders(GetHeaders(req.headers))
  IN  [url |-> req.url, method |-> req.method, body |-> reqBody,
       headers |->
         [h \in DOMAIN cleaned \cup {NO_MORE_LEAKS_HEADER} |->
            IF h = NO_MORE_LEAKS_HEADER THEN InformValue(id)
            ELSE cleaned[h]]]

\* the sub-request originRequest hands to httpRequest
originRequest(req, reqBody, id) ==
  LET cleaned == removeUnsafeHeaders(GetHeaders(req.headers))
  IN  [url |-> req.url, method |-> req.method, body |-> reqBody,
       headers |->
         [h \in DOMAIN cleaned \cup {"ew-bypass", NO_MORE_LEAKS_HEADER} |->
            IF h = NO_MORE_LEAKS_HEADER THEN InformValue(id)
            ELSE IF h = "ew-bypass" THEN "true"
            ELSE cleaned[h]]]

\* formBody is truthy unless it is null or the empty string
TextTruthy(text) == text.k # "null" /\ ~(text.k = "form" /\ text.pairs = <<>>)

\* formBody || JSON.stringify(body)
ReqBody(formBody, body) ==
  IF TextTruthy(formBody) THEN formBody ELSE Text("json", body, <<>>)

\* request.getVariable("PMUSER_AUTH_HEADER") || null
AuthHeaderOf(req) == IF Truthy(req.authVar) THEN req.authVar ELSE JNull

\* the gate without the call of isValidBody
ValidationGate_BodyOnly(body) == IF Truthy(body) THEN "true" ELSE "false"

\* body && isValidBody(body)
ValidationGate(body) == IF ~Truthy(body) THEN "false" ELSE isValidBody(body)

LowerChar(c) == IF c = "A" THEN "a" ELSE c
LowerStr(chars) == [i \in 1..Len(chars) |-> LowerChar(chars[i])]

\* normalize("NFC"): the alphabet has no combining characters
NFC(chars) == chars

\* .toLowerCase() and .normalize() exist on strings only
NormalizeThrows(body) ==
  \/ getNestedValue(body, UNAME).t # "str"
  \/ getNestedValue(body, PASSWD).t # "str"

\* the password lower-cased like the username
normalizedUnamePasswd_LowersBoth(body) ==
  JStr(NFC(LowerStr(getNestedValue(body, UNAME).s))
         \o NFC(LowerStr(getNestedValue(body, PASSWD).s)))

\* the username without .toLowerCase()
normalizedUnamePasswd_NoLowerCase(body) ==
  JStr(NFC(getNestedValue(body, UNAME).s)
         \o NFC(getNestedValue(body, PASSWD).s))

normalizedUnamePasswd(body) ==
  JStr(NFC(LowerStr(getNestedValue(body, UNAME).s))
         \o NFC(getNestedValue(body, PASSWD).s))

\* the SHA-256 digest, as a string value that stands for the hash of its input
generateDigest(input) == [t |-> "digest", s |-> input.s, f |-> NoProps]

\* the gate without the test of key
LookupGate_AuthOnly(key, authHeader) == Truthy(authHeader)

\* the gate without the test of authHeader
LookupGate_KeyOnly(key, authHeader) == Truthy(key)

\* key && authHeader
LookupGate(key, authHeader) == Truthy(key) /\ Truthy(authHeader)

LogEntry(lvl, msg, data) == [lvl |-> lvl, msg |-> msg, data |-> data]

\* the id test without `response["id"].length === 36`
IdCheck_NoLengthTest(response) ==
  IF response.t \in {"null", "undefined"} THEN "throw"
  ELSE IF "id" \notin DOMAIN response.f \/ response.f["id"] = JNull
       THEN "nomatch"
  ELSE IF response.f["id"].t = "str" THEN "match" ELSE "throw"

\* the outcome of keyExists on the parsed lookup response: "throw" is the
\* TypeError of null.hasOwnProperty, which the catch block turns into null
IdCheck(response) ==
  IF response.t \in {"null", "undefined"} THEN "throw"
  ELSE IF "id" \notin DOMAIN response.f \/ response.f["id"] = JNull
       THEN "nomatch"
  ELSE IF response.f["id"].t = "str" /\ Len(response.f["id"].s) = UuidLen
       THEN "match"
  \* an array of 36 elements, or an object with a length property of 36,
  \* passes the length test and has no substring()
  ELSE IF \/ /\ response.f["id"].t = "arr"
             /\ Cardinality(DOMAIN response.f["id"].f) = UuidLen
          \/ /\ response.f["id"].t = "obj"
             /\ "length" \in DOMAIN response.f["id"].f
             /\ response.f["id"].f["length"] = JNum(<<"3", "6">>)
       THEN "throw" ELSE "nomatch"

\* keyExists without its try/catch: a rejected sub-request, an unparseable
\* response or a TypeError leaves the function
keyExists_NoCatch(answer) ==
  IF answer.kind = "error" THEN Thrown
  ELSE IF ~answer.ok THEN JNull
  ELSE IF ~JsonParses(answer.text) THEN Thrown
  ELSE IF IdCheck(ParseJson(answer.text)) = "throw" THEN Thrown
  ELSE IF IdCheck(ParseJson(answer.text)) = "match"
       THEN ParseJson(answer.text).f["id"] ELSE JNull

\* what keyExists returns for an answer of the lookup service: the catch
\* block turns every exception into the final `return null`
keyExists(answer) ==
  IF answer.kind = "error" THEN JNull
  ELSE IF ~answer.ok THEN JNull
  ELSE IF ~JsonParses(answer.text) THEN JNull
  ELSE IF IdCheck(ParseJson(answer.text)) = "throw" THEN JNull
  ELSE IF IdCheck(ParseJson(answer.text)) = "match"
       THEN ParseJson(answer.text).f["id"] ELSE JNull

\* what keyExists logs for an answer of the lookup service
keyExistsLog(answer) ==
  IF answer.kind = "error" THEN LogEntry("error", "problem calling KNOWN_KEY_URL", <<>>)
  ELSE IF ~answer.ok THEN LogEntry("error", "lookup response body", <<>>)
  ELSE IF ~JsonParses(answer.text) \/ IdCheck(ParseJson(answer.text)) = "throw"
  THEN LogEntry("error", "problem calling KNOWN_KEY_URL", <<>>)
  ELSE IF IdCheck(ParseJson(answer.text)) = "match"
  THEN LogEntry("info", "found id",
                <<JStr(SubSeq(ParseJson(answer.text).f["id"].s, 1, 5))>>)
  ELSE LogEntry("error", "id field not in json response", <<>>)

(***************************************************************************)
(* State                                                                   *)
(***************************************************************************)
VARIABLES
  request,      \* the inbound request
  pc,           \* where responseProvider is suspended, or how it ended
  body,         \* let body
  formBody,     \* let formBody
  authHeader,   \* const authHeader
  validResult,  \* outcome of the isValidBody call: none, true, false, throw
  fingerprint,  \* normalizedUnamePasswd
  key,          \* let key
  id,           \* let id
  lookupReqs,   \* the lookup sub-requests issued, in order
  lookupResp,   \* the lookup response whose body is being read
  originReqs,   \* the origin sub-requests issued, in order
  originResp,   \* what the origin sub-request settled with
  reports,      \* the report sub-requests issued, in order
  response,     \* the response created for the client
  failure,      \* why the promise of responseProvider was rejected
  log,          \* the records written to the logger
  rObj,         \* path resolver: the object to resolve in
  rPath,        \* path resolver: the text of the path
  rValue,       \* path resolver: what getNestedValue returned
  rHas,         \* path resolver: what hasNestedProperty returned
  rPc,          \* path resolver: "input" before the calls, "done" after
  parked        \* the invocations of responseProvider that are suspended
                \* while the one above runs

resolverVars == <<rObj, rPath, rValue, rHas, rPc>>

vars ==
  <<request, pc, body, formBody, authHeader, validResult, fingerprint, key,
    id, lookupReqs, lookupResp, originReqs, originResp, reports, response,
    failure, log, rObj, rPath, rValue, rHas, rPc, parked>>

NoLookupAnswer == [kind |-> "none", ok |-> FALSE, text |-> NullText]
NoResponse == [status |-> 0, headers |-> NoProps, body |-> "none"]
NoOriginAnswer ==
  [kind |-> "none", status |-> 0, ok |-> FALSE, headers |-> NoProps, body |-> "none"]

Init ==
  /\ request \in Requests
  /\ pc = "start"
  /\ body = JNull
  /\ formBody = NullText
  /\ authHeader = JNull
  /\ validResult = "none"
  /\ fingerprint = Undefined
  /\ key = Undefined
  /\ id = JNull
  /\ lookupReqs = <<>>
  /\ lookupResp = NoLookupAnswer
  /\ originReqs = <<>>
  /\ originResp = NoOriginAnswer
  /\ reports = <<>>
  /\ response = NoResponse
  /\ failure = "none"
  /\ log = <<>>
  /\ rObj = JNull
  /\ rPath = <<>>
  /\ rValue = Undefined
  /\ rHas = FALSE
  /\ rPc = "off"
  /\ parked = <<>>

(***************************************************************************)
(* The synchronous stretches of responseProvider                           *)
(***************************************************************************)
\* lines 113-117 and originRequest up to its await: build the origin
\* sub-request for match identifier idv and hand it to httpRequest
Forward(idv, lg) ==
  /\ id' = idv
  /\ originReqs' = Append(originReqs, originRequest(request, ReqBody(formBody', body'), idv))
  /\ log' = lg
  /\ pc' = "awaitOrigin"
  /\ failure' = "none"

\* line 102 onwards: keyExists has returned idv, or an exception left it
AfterLookup(idv, lg) ==
  IF idv = Thrown
  THEN /\ pc' = "rejected"
       /\ failure' = "exception in keyExists"
       /\ log' = lg
       /\ UNCHANGED <<id, originReqs>>
  ELSE Forward(idv, lg)

\* `id = keyExists(key, authHeader)` without the await: the request goes to
\* the origin while the lookup is outstanding
LookupOrForward_NoAwait(k, lg) ==
  /\ key' = k
  /\ IF LookupGate(k, authHeader')
     THEN lookupReqs' = Append(lookupReqs, [hash |-> k, auth |-> authHeader'])
     ELSE UNCHANGED lookupReqs
  /\ Forward(JNull, lg)

\* lines 99-107: look the key up, or log and forward without a lookup
LookupOrForward(k, lg) ==
  /\ key' = k
  /\ IF LookupGate(k, authHeader')
     THEN /\ lookupReqs' = Append(lookupReqs, [hash |-> k, auth |-> authHeader'])
          /\ pc' = "awaitLookup"
          /\ log' = lg
          /\ UNCHANGED <<id, originReqs, failure>>
     ELSE /\ Forward(JNull, Append(lg, LogEntry("error", "key or autHeader not defined",
                                                <<k, authHeader'>>)))
          /\ UNCHANGED lookupReqs

\* lines 71-112, entered with the parsed body b and the form text fb
AfterBody(b, fb, lg) ==
  /\ body' = b
  /\ formBody' = fb
  /\ authHeader' = AuthHeaderOf(request)
  /\ validResult' = IF Truthy(b) THEN isValidBody(b) ELSE "none"
  /\ CASE ValidationGate(b) = "throw" ->
            \* the TypeError leaves responseProvider: its promise is rejected
            /\ pc' = "rejected"
            /\ failure' = "TypeError in isValidBody"
            /\ log' = lg
            /\ UNCHANGED <<fingerprint, key, id, lookupReqs, originReqs>>
       [] ValidationGate(b) = "false" ->
            /\ Forward(JNull, Append(lg, LogEntry("error", "fields not provided", <<>>)))
            /\ UNCHANGED <<fingerprint, key, lookupReqs>>
       [] OTHER ->
            IF NormalizeThrows(b)
            THEN /\ LookupOrForward(Undefined,
                      Append(lg, LogEntry("error", "went wrong creating the SHA-256", <<>>)))
                 /\ UNCHANGED fingerprint
            ELSE \* await generateDigest
                 /\ fingerprint' = normalizedUnamePasswd(b)
                 /\ pc' = "awaitDigest"
                 /\ log' = lg
                 /\ UNCHANGED <<key, id, lookupReqs, originReqs, failure>>
  /\ UNCHANGED <<resolverVars, parked, request, lookupResp, originResp, reports, response>>

(***************************************************************************)
(* Actions: one per stretch of code between two suspension points          *)
(***************************************************************************)
\* request.getHeader("content-type")?.[0]?.toLowerCase(); "" is undefined
ContentTypeOf(req) ==
  IF "content-type" \in DOMAIN GetHeaders(req.headers)
  THEN ToLowerCase(GetHeaders(req.headers)["content-type"]) ELSE ""

ReadsBody(contentType) ==
  /\ contentType # ""
  /\ \/ StartsWith(contentType, "application/json")
     \/ StartsWith(contentType, "application/x-www-form-urlencoded")

\* lines 32-52: entry of responseProvider, up to the await of the body; a
\* request without a supported content type runs on to the origin call
ReceiveRequest ==
  /\ pc = "start"
  /\ LET contentType == ContentTypeOf(request)
     IN  IF ReadsBody(contentType)
         THEN /\ pc' = "awaitBody"
              /\ UNCHANGED <<resolverVars, parked, request, body, formBody, authHeader, validResult,
                             fingerprint, key, id, lookupReqs, lookupResp,
                             originReqs, originResp, reports, response,
                             failure, log>>
         ELSE AfterBody(JNull, NullText,
                IF contentType = ""
                THEN Append(log, LogEntry("error", "Content-Type is undefined", <<>>))
                ELSE log)

\* lines 50-66: request.json() or request.text() settles; readOk = FALSE is
\* a stream that cannot be read
BodyRead ==
  /\ pc = "awaitBody"
  /\ \E readOk \in BOOLEAN :
       LET contentType == ContentTypeOf(request)
           parseError == Append(log, LogEntry("error", "Failed to parse request body", <<>>))
       IN  IF StartsWith(contentType, "application/json")
           THEN IF readOk /\ JsonParses(request.raw)
                THEN AfterBody(ParseJson(request.raw), NullText, log)
                ELSE AfterBody(JNull, NullText, parseError)
           ELSE IF readOk
                THEN AfterBody(mapCredentials(URLSearchParams(request.raw)),
                               request.raw, log)
                ELSE AfterBody(JNull, NullText, parseError)

\* generateDigest awaited outside the try block: a digest error leaves
\* responseProvider
DigestDone_NoCatch ==
  /\ pc = "awaitDigest"
  /\ UNCHANGED <<resolverVars, parked, request, body, formBody, authHeader, validResult, fingerprint,
                 lookupResp, originResp, reports, response>>
  /\ \E digestOk \in BOOLEAN :
       IF digestOk
       THEN LookupOrForward(generateDigest(fingerprint), log)
       ELSE /\ pc' = "rejected"
            /\ failure' = "digest error"
            /\ UNCHANGED <<key, id, lookupReqs, originReqs, log>>

\* lines 91-107: generateDigest settles; digestOk = FALSE is a digest error
DigestDone ==
  /\ pc = "awaitDigest"
  /\ UNCHANGED <<resolverVars, parked, request, body, formBody, authHeader, validResult, fingerprint,
                 lookupResp, originResp, reports, response>>
  /\ \E digestOk \in BOOLEAN :
       IF digestOk
       THEN LookupOrForward(generateDigest(fingerprint), log)
       ELSE LookupOrForward(Undefined,
              Append(log, LogEntry("error", "went wrong creating the SHA-256", <<>>)))

\* keyExists lines 169-172 and 192-200: the lookup sub-request settles
LookupResponse ==
  /\ pc = "awaitLookup"
  /\ UNCHANGED <<resolverVars, parked, request, body, formBody, authHeader, validResult, fingerprint,
                 key, lookupReqs, originResp, reports, response>>
  /\ \E answer \in LookupAnswers :
       IF answer.kind = "response" /\ answer.ok
       THEN \* await result.json()
            /\ lookupResp' = answer
            /\ pc' = "awaitLookupJson"
            /\ UNCHANGED <<id, originReqs, failure, log>>
       ELSE /\ lookupResp' = answer
            /\ AfterLookup(keyExists(answer), Append(log, keyExistsLog(answer)))

\* keyExists lines 172-200 and responseProvider lines 102-117: the lookup
\* response is read and the request goes to the origin
LookupJsonRead ==
  /\ pc = "awaitLookupJson"
  /\ UNCHANGED <<resolverVars, parked, request, body, formBody, authHeader, validResult, fingerprint,
                 key, lookupReqs, lookupResp, originResp, reports, response>>
  /\ AfterLookup(keyExists(lookupResp), Append(log, keyExistsLog(lookupResp)))

\* a pipeline that answers the client whatever the origin call did
OriginOutcome_Substitute(originResponse) == "respond"

\* lines 117-144: a rejected origin sub-request leaves responseProvider
\* through the await; without a response object, reading .ok or .status
\* raises a TypeError; otherwise a response is created
OriginOutcome(originResponse) ==
  IF originResponse.kind = "response" THEN "respond" ELSE "reject"

\* the report is sent for every match, whatever the origin answered
ReportGate_IdOnly(idv, originResponse) == Truthy(idv)

\* id && originResponse.ok
ReportGate(idv, originResponse) == Truthy(idv) /\ originResponse.ok

\* the report sub-request without its Authorization header
registerPositiveMatch_NoAuth(reqBody, auth, dispatched) ==
  [id |-> reqBody.id, group |-> reqBody.group, auth |-> JNull,
   state |-> IF dispatched THEN "outstanding" ELSE "threw"]

\* registerPositiveMatch: the report sub-request handed to httpRequest;
\* dispatched = FALSE is an httpRequest that throws at the call
registerPositiveMatch(reqBody, auth, dispatched) ==
  [id |-> reqBody.id, group |-> reqBody.group, auth |-> auth,
   state |-> IF dispatched THEN "outstanding" ELSE "threw"]

\* a response that always tells the client 200
createResponse_AlwaysOk(status, headers, respBody) ==
  [status |-> 200, headers |-> headers, body |-> respBody]

createResponse(status, headers, respBody) ==
  [status |-> status, headers |-> headers, body |-> respBody]

\* `await registerPositiveMatch(...)` on a returned promise: the pipeline
\* waits for the report before it creates the response
Respond_AwaitsReport(originResponse, dispatched) ==
  IF ReportGate(id, originResponse) /\ dispatched
  THEN /\ reports' = Append(reports,
            registerPositiveMatch([id |-> id, group |-> request.host],
                                  authHeader, dispatched))
       /\ log' = Append(log, LogEntry("info", "Registering a hit", <<>>))
       /\ pc' = "awaitReport"
       /\ UNCHANGED <<response, failure>>
  ELSE /\ response' = createResponse(originResponse.status,
                                     removeUnsafeHeaders(GetHeaders(originResponse.headers)),
                                     originResponse.body)
       /\ pc' = "responded"
       /\ UNCHANGED <<reports, log, failure>>

\* lines 119-138: report the match without waiting for the report, and
\* create the response for the client
Respond(originResponse, dispatched) ==
  /\ IF ReportGate(id, originResponse)
     THEN /\ reports' = Append(reports,
               registerPositiveMatch([id |-> id, group |-> request.host],
                                     authHeader, dispatched))
          /\ log' = Append(log,
               IF dispatched
               THEN LogEntry("info", "Registering a hit", <<>>)
               ELSE LogEntry("error", "problem calling POSITIVE_MATCH_URL", <<>>))
     ELSE /\ dispatched
          /\ UNCHANGED <<reports, log>>
  /\ response' = createResponse(originResponse.status,
                                removeUnsafeHeaders(GetHeaders(originResponse.headers)),
                                originResponse.body)
  /\ pc' = "responded"
  /\ UNCHANGED failure

\* lines 117-145: the origin sub-request settles
OriginResponse ==
  /\ pc = "awaitOrigin"
  /\ UNCHANGED <<resolverVars, parked, request, body, formBody, authHeader, validResult, fingerprint,
                 key, id, lookupReqs, lookupResp, originReqs>>
  /\ \E originResponse \in OriginAnswers, dispatched \in BOOLEAN :
       /\ originResp' = originResponse
       /\ CASE OriginOutcome(originResponse) = "reject" ->
              /\ dispatched
              /\ pc' = "rejected"
              /\ failure' = IF originResponse.kind = "error"
                             THEN "origin sub-request rejected"
                             ELSE "TypeError on origin response"
              /\ UNCHANGED <<reports, response, log>>
         [] OTHER -> Respond(originResponse, dispatched)

\* a reporter that sends the report again when it failed
ReportSettled_Retries ==
  /\ \E i \in 1..Len(reports) :
       /\ reports[i].state = "outstanding"
       /\ Len(reports) < 2
       /\ \E st \in {"done", "failed"} :
            reports' = IF st = "done"
                       THEN [reports EXCEPT ![i].state = st]
                       ELSE Append([reports EXCEPT ![i].state = st], reports[i])
  /\ UNCHANGED <<resolverVars, parked, request, pc, body, formBody, authHeader, validResult,
                 fingerprint, key, id, lookupReqs, lookupResp, originReqs,
                 originResp, response, failure, log>>

\* the report sub-request settles; nothing awaits it and nothing handles
\* its rejection
ReportSettled ==
  /\ \E i \in 1..Len(reports) :
       /\ reports[i].state = "outstanding"
       /\ \E st \in {"done", "failed"} :
            reports' = [reports EXCEPT ![i].state = st]
  /\ UNCHANGED <<resolverVars, parked, request, pc, body, formBody, authHeader, validResult,
                 fingerprint, key, id, lookupReqs, lookupResp, originReqs,
                 originResp, response, failure, log>>

Next ==
  \/ ReceiveRequest
  \/ BodyRead
  \/ DigestDone
  \/ LookupResponse
  \/ LookupJsonRead
  \/ OriginResponse
  \/ ReportSettled

Spec == Init /\ [][Next]_vars

(***************************************************************************)
(* The path resolver of utils.ts on its own: getNestedValue and            *)
(* hasNestedProperty applied to an object and a path                       *)
(***************************************************************************)
ResolverLeaves == {JStr(<<"a">>), JStr(<<>>), JNull, JNum(<<"7">>)}

ResolverBodies ==
  UNION {{JObj([k \in {"users"} |->
                 [t |-> "arr", s |-> <<>>,
                  f |-> [i \in {"0"} |-> JObj([k2 \in {"email"} |-> v])]]]),
          JObj([k \in {"user"} |-> JObj([k2 \in {"email"} |-> v])]),
          JObj([k \in {"email"} |-> v])} : v \in ResolverLeaves}
    \cup {JNull, JStr(<<"a">>), JObj([k \in {"users"} |-> JStr(<<"a">>)])}

ResolverPaths ==
  {<<"users", "[0]", ".", "email">>,
   <<"users", ".", "0", ".", "email">>,
   <<"users", "[0]">>,
   <<"users", ".", "length">>,
   <<"users">>,
   <<"user", ".", "email">>,
   <<"user", ".", ".", "email">>,
   <<"email">>,
   <<>>}

IdleRequest ==
  [method |-> "POST", host |-> "login.example.com", url |-> "/login",
   headers |-> NoProps, raw |-> GarbageText, authVar |-> Undefined]

ResolverInit ==
  /\ request = IdleRequest
  /\ pc = "off"
  /\ body = JNull
  /\ formBody = NullText
  /\ authHeader = JNull
  /\ validResult = "none"
  /\ fingerprint = Undefined
  /\ key = Undefined
  /\ id = JNull
  /\ lookupReqs = <<>>
  /\ lookupResp = NoLookupAnswer
  /\ originReqs = <<>>
  /\ originResp = NoOriginAnswer
  /\ reports = <<>>
  /\ response = NoResponse
  /\ failure = "none"
  /\ log = <<>>
  /\ rObj \in ResolverBodies
  /\ rPath \in ResolverPaths
  /\ rValue = Undefined
  /\ rHas = FALSE
  /\ rPc = "input"
  /\ parked = <<>>

\* utils.ts lines 6-27: both functions are called on the object and path
Resolve ==
  /\ rPc = "input"
  /\ rValue' = getNestedValue(rObj, Split(rPath))
  /\ rHas' = hasNestedProperty(rObj, Split(rPath))
  /\ rPc' = "done"
  /\ UNCHANGED <<rObj, rPath, parked, request, pc, body, formBody, authHeader,
                 validResult, fingerprint, key, id, lookupReqs, lookupResp,
                 originReqs, originResp, reports, response, failure, log>>

ResolverNext == Resolve

ResolverSpec == ResolverInit /\ [][ResolverNext]_vars

(***************************************************************************)
(* Two invocations of responseProvider in one EdgeWorker.  The event loop  *)
(* runs one invocation at a time and can resume another one whenever the   *)
(* running one is suspended at an await.  Everything responseProvider and  *)
(* its helpers write is declared inside the function (let body, formBody,  *)
(* key, id; const authHeader, contentType, reqBody, originResponse), so    *)
(* every invocation has its own copy; the module-level declarations        *)
(* (X_HASH_KEY and the imported constants) are const.                      *)
(***************************************************************************)
\* the locals and sub-requests of one invocation
Invocation(req, p, b, fb, ah, vr, fp, k, idv, lrq, lrs, orq, ors, rep, rsp, fl, lg) ==
  [request |-> req, pc |-> p, body |-> b, formBody |-> fb, authHeader |-> ah,
   validResult |-> vr, fingerprint |-> fp, key |-> k, id |-> idv,
   lookupReqs |-> lrq, lookupResp |-> lrs, originReqs |-> orq,
   originResp |-> ors, reports |-> rep, response |-> rsp, failure |-> fl,
   log |-> lg]

\* the invocation that is running
Running ==
  Invocation(request, pc, body, formBody, authHeader, validResult,
             fingerprint, key, id, lookupReqs, lookupResp, originReqs,
             originResp, reports, response, failure, log)

\* an invocation that has not started yet
Fresh(req) ==
  Invocation(req, "start", JNull, NullText, JNull, "none", Undefined,
             Undefined, JNull, <<>>, NoLookupAnswer, <<>>, NoOriginAnswer,
             <<>>, NoResponse, "none", <<>>)

BasicAuth == JStr(<<"B", "a", "s", "i", "c">>)

\* a login sent as JSON and a login sent as a form
JsonLogin(host, u, p) ==
  [method |-> "POST", host |-> host, url |-> "/login",
   headers |-> WithContentType([h \in {"accept"} |-> "*/*"], "application/json"),
   raw |-> Text("json", CredentialObject(JStr(u), JStr(p)), <<>>),
   authVar |-> BasicAuth]

FormLogin(host, u, p) ==
  [method |-> "POST", host |-> host, url |-> "/login",
   headers |-> WithContentType([h \in {"accept"} |-> "*/*"],
                               "application/x-www-form-urlencoded"),
   raw |-> Text("form", JNull, FormField("username", u) \o FormField("password", p)),
   authVar |-> BasicAuth]

\* the (username, password) pairs of two logins that arrive together:
\* unrelated credentials, credentials that differ in letter case only, and
\* credentials with the two fields swapped
ConcurrentLogins ==
  {<< <<"a", "a">>, <<"a", "a", "a">>, <<"A", "A">>, <<"A", "A", "A">> >>,
   << <<"A", "a">>, <<"a", "a", "a">>, <<"a", "A">>, <<"a", "a", "a">> >>,
   << <<"a", "a">>, <<"a", "a", "a">>, <<"a", "a">>, <<"a", "A", "a">> >>,
   << <<"a", "a", "a">>, <<"a", "a", "a", "a">>, <<"a", "a", "a", "a">>, <<"a", "a", "a">> >>,
   << <<"a", "a", "a">>, <<"a", "A", "a">>, <<"a", "A", "a">>, <<"a", "a", "a">> >>,
   << <<"A", "a", "a">>, <<"a", "a", "a">>, <<"a", "a", "a">>, <<"A", "a", "a">> >>}

ConcurrentRequests ==
  {<<JsonLogin("a.example.com", c[1], c[2]), FormLogin("b.example.com", c[3], c[4])>> :
     c \in ConcurrentLogins}

ConcurrentInit ==
  /\ \E rs \in ConcurrentRequests :
       /\ request = rs[1]
       /\ parked = <<Fresh(rs[2])>>
  /\ pc = "start"
  /\ body = JNull
  /\ formBody = NullText
  /\ authHeader = JNull
  /\ validResult = "none"
  /\ fingerprint = Undefined
  /\ key = Undefined
  /\ id = JNull
  /\ lookupReqs = <<>>
  /\ lookupResp = NoLookupAnswer
  /\ originReqs = <<>>
  /\ originResp = NoOriginAnswer
  /\ reports = <<>>
  /\ response = NoResponse
  /\ failure = "none"
  /\ log = <<>>
  /\ rObj = JNull
  /\ rPath = <<>>
  /\ rValue = Undefined
  /\ rHas = FALSE
  /\ rPc = "off"

\* `let id` declared at module scope: one id for all invocations
Switch_SharedId ==
  /\ parked # <<>>
  /\ parked' = <<Running>>
  /\ request' = parked[1].request
  /\ pc' = parked[1].pc
  /\ body' = parked[1].body
  /\ formBody' = parked[1].formBody
  /\ authHeader' = parked[1].authHeader
  /\ validResult' = parked[1].validResult
  /\ fingerprint' = parked[1].fingerprint
  /\ key' = parked[1].key
  /\ id' = id
  /\ lookupReqs' = parked[1].lookupReqs
  /\ lookupResp' = parked[1].lookupResp
  /\ originReqs' = parked[1].originReqs
  /\ originResp' = parked[1].originResp
  /\ reports' = parked[1].reports
  /\ response' = parked[1].response
  /\ failure' = parked[1].failure
  /\ log' = parked[1].log
  /\ UNCHANGED resolverVars

\* the running invocation is suspended at an await (or has ended) and the
\* event loop resumes the other one, with its own locals
Switch ==
  /\ parked # <<>>
  /\ parked' = <<Running>>
  /\ request' = parked[1].request
  /\ pc' = parked[1].pc
  /\ body' = parked[1].body
  /\ formBody' = parked[1].formBody
  /\ authHeader' = parked[1].authHeader
  /\ validResult' = parked[1].validResult
  /\ fingerprint' = parked[1].fingerprint
  /\ key' = parked[1].key
  /\ id' = parked[1].id
  /\ lookupReqs' = parked[1].lookupReqs
  /\ lookupResp' = parked[1].lookupResp
  /\ originReqs' = parked[1].originReqs
  /\ originResp' = parked[1].originResp
  /\ reports' = parked[1].reports
  /\ response' = parked[1].response
  /\ failure' = parked[1].failure
  /\ log' = parked[1].log
  /\ UNCHANGED resolverVars

ConcurrentNext == Next \/ Switch

ConcurrentSpec == ConcurrentInit /\ [][ConcurrentNext]_vars

(***************************************************************************)
(* Properties                                                              *)
(***************************************************************************)
\* the detection header of the i-th origin sub-request, "absent" if not set
DetectionHeader(i) ==
  IF NO_MORE_LEAKS_HEADER \in DOMAIN originReqs[i].headers
  THEN originReqs[i].headers[NO_MORE_LEAKS_HEADER] ELSE "absent"

OriginAnswered == originResp.kind = "response"
OriginFailed == originResp.kind \in {"error", "empty"}

\* C1: a report call is issued only when the lookup gave a match identifier
\* and the origin response is a success; without a match, with an origin
\* response that is not ok, or with a failed origin call, none is issued.
C1_ReportOnlyOnMatchAndOriginOk ==
  reports # <<>> => id # JNull /\ OriginAnswered /\ originResp.ok

C1_Witness == reports # <<>> /\ pc = "responded"

\* C2: whatever the request, the pipeline never ends before the origin call
\* was issued: a rejected pipeline has issued its origin sub-request.
C2_NoFailureBeforeOriginCall == pc = "rejected" => originReqs # <<>>

\* C3: when the origin call fails, the pipeline ends rejected, no response
\* is created for the client and no report call is issued.
C3_OriginFailureRejects ==
  OriginFailed => pc = "rejected" /\ response = NoResponse /\ reports = <<>>

C3_Witness == originResp.kind = "error" /\ id # JNull

LookupOutstanding ==
  /\ lookupReqs # <<>>
  /\ lookupResp = NoLookupAnswer \/ pc = "awaitLookupJson"

C5_LookupBeforeOrigin == originReqs # <<>> => ~LookupOutstanding

C5_Witness == originReqs # <<>> /\ lookupReqs # <<>> /\ lookupResp.ok

\* C6: a lookup call is issued only with a computed digest and a non-empty
\* auth credential; when one of them is missing the lookup is skipped, the
\* match state stays "no match" and the request is forwarded with the
\* detection header "false".
AuthPresent == request.authVar.t = "str" /\ request.authVar.s # <<>>
DigestComputed == key.t = "digest"

C6_LookupNeedsDigestAndAuth ==
  /\ \A i \in 1..Len(lookupReqs) :
       /\ DigestComputed /\ AuthPresent
       /\ lookupReqs[i] = [hash |-> key, auth |-> request.authVar]
  /\ (originReqs # <<>> /\ ~(DigestComputed /\ AuthPresent)) =>
       /\ lookupReqs = <<>>
       /\ id = JNull
       /\ DetectionHeader(1) = "false"

C6_Witness ==
  DigestComputed /\ request.authVar = JStr(<<>>) /\ pc = "awaitOrigin"

\* C7: for a body on which isValidBody returns false, and so for a body
\* without the username or the password path, no fingerprint input is
\* built, no digest is computed, no lookup call is made, and the request
\* is forwarded with the detection header "false".
BodyKnown == pc \notin {"start", "awaitBody"}
MissingPath(b) == "username" \notin DOMAIN b.f \/ "password" \notin DOMAIN b.f

C7_InvalidBodySkipsDetection ==
  (BodyKnown /\ (isValidBody(body) = "false" \/ MissingPath(body))) =>
    /\ fingerprint = Undefined
    /\ key = Undefined
    /\ lookupReqs = <<>>
    /\ Len(originReqs) = 1
    /\ DetectionHeader(1) = "false"

C7_Witness ==
  /\ pc = "awaitOrigin"
  /\ validResult = "false"
  /\ "username" \in DOMAIN body.f
  /\ "password" \notin DOMAIN body.f
  /\ AuthPresent

\* C8: isValidBody returns true exactly when the body is a non-null object,
\* both field paths exist, the username is longer than 1 and the password
\* longer than 2; in every other case it returns false.
HasLengthAbove(v, n) ==
  \/ v.t = "str" /\ Len(v.s) > n
  \/ v.t = "arr" /\ Cardinality(DOMAIN v.f) > n

MeetsPolicy(b) ==
  /\ b.t \in {"obj", "arr"}
  /\ "username" \in DOMAIN b.f
  /\ "password" \in DOMAIN b.f
  /\ HasLengthAbove(b.f["username"], 1)
  /\ HasLengthAbove(b.f["password"], 2)

C8_ValidExactlyWhenPolicyMet ==
  validResult # "none" =>
    validResult = IF MeetsPolicy(body) THEN "true" ELSE "false"

\* C9: isValidBody never throws: for every parsed body it returns a boolean.
C9_IsValidBodyNeverThrows == validResult \in {"none", "true", "false"}

\* C10: keyExists is fail-open: after a network error, a non-success status
\* or an unparseable response the match identifier is null, the request is
\* forwarded with the detection header "false", no report is issued, and
\* the pipeline fails only if the origin call itself fails.
LookupFailed ==
  \/ lookupResp.kind = "error"
  \/ lookupResp.kind = "response" /\ ~lookupResp.ok
  \/ /\ lookupResp.kind = "response" /\ lookupResp.ok
     /\ ~JsonParses(lookupResp.text)
     /\ pc # "awaitLookupJson"

C10_LookupFailsOpen ==
  LookupFailed =>
    /\ id = JNull
    /\ Len(originReqs) = 1
    /\ DetectionHeader(1) = "false"
    /\ reports = <<>>
    /\ pc = "rejected" => OriginFailed

C10_Witness ==
  /\ lookupResp.kind = "response" /\ lookupResp.ok
  /\ ~JsonParses(lookupResp.text)
  /\ pc = "responded" /\ originResp.ok

\* the lookup answered with success and keyExists has returned
LookupRead ==
  lookupResp.kind = "response" /\ lookupResp.ok /\ pc # "awaitLookupJson"

LookupDoc == lookupResp.text.v

IsUuidShaped(v) == v.t = "str" /\ Len(v.s) = 36

\* C11: on a successful lookup response keyExists returns the id of the
\* response exactly when it is present, non-null and a string of 36
\* characters; for every other response it returns null.
C11_IdOnlyIfUuidShaped ==
  LookupRead =>
    id = IF /\ JsonParses(lookupResp.text)
            /\ LookupDoc.t = "obj"
            /\ "id" \in DOMAIN LookupDoc.f
            /\ IsUuidShaped(LookupDoc.f["id"])
         THEN LookupDoc.f["id"] ELSE JNull

C11_Witness == LookupRead /\ id = UUID2 /\ pc = "awaitOrigin"

\* C12: when the 36-character identifier is nested one level under the id
\* key of the lookup response, keyExists returns the nested identifier.
C12_NestedIdIsMatch ==
  (/\ LookupRead
   /\ JsonParses(lookupResp.text)
   /\ LookupDoc.t = "obj"
   /\ "id" \in DOMAIN LookupDoc.f
   /\ LookupDoc.f["id"].t = "obj"
   /\ "id" \in DOMAIN LookupDoc.f["id"].f
   /\ IsUuidShaped(LookupDoc.f["id"].f["id"]))
    => id = LookupDoc.f["id"].f["id"]

\* C13: when the lookup gave a 36-character identifier and the origin
\* answered with success, exactly one report call is issued, with that
\* identifier as id, the host of the request as group, and the auth
\* credential of the request.
C13_OneReportWithIdAndHost ==
  (IsUuidShaped(id) /\ OriginAnswered /\ originResp.ok) =>
    /\ Len(reports) = 1
    /\ reports[1].id = id
    /\ reports[1].group = request.host
    /\ reports[1].auth = request.authVar

C13_Witness == id = UUID /\ OriginAnswered /\ originResp.ok /\ Len(reports) = 1

\* the response that relays the origin's answer
RelayedResponse ==
  [status |-> originResp.status,
   headers |-> response.headers,
   body |-> originResp.body]

\* C14: the report is fire-and-forget: whenever a report call is
\* outstanding the response for the client has already been produced.
C14_RespondedWhileReportOutstanding ==
  \A i \in 1..Len(reports) :
    reports[i].state = "outstanding" =>
      pc = "responded" /\ response # NoResponse /\ response = RelayedResponse

C14_Witness == pc = "responded" /\ reports # <<>> /\ reports[1].state = "outstanding"

\* C15: a failure of the report call, at the call or later, is never
\* surfaced: the pipeline has responded with the origin's status and body,
\* it has not failed, and the report is not sent again.
ReportHasFailed == \E i \in 1..Len(reports) : reports[i].state \in {"failed", "threw"}

C15_ReportFailureSuppressed ==
  ReportHasFailed =>
    /\ pc = "responded"
    /\ failure = "none"
    /\ response = RelayedResponse
    /\ Len(reports) = 1

C15_Witness == reports # <<>> /\ reports[1].state = "failed" /\ pc = "responded"

\* C17: whenever the origin call returns a response, whatever its status
\* and whatever the match state, the client receives the origin's status
\* and body, and the pipeline does not fail.
C17_OriginStatusAndBodyRelayed ==
  OriginAnswered =>
    /\ pc = "responded"
    /\ response.status = originResp.status
    /\ response.body = originResp.body

C17_Witness == OriginAnswered /\ originResp.status = 401 /\ id # JNull /\ pc = "responded"

\* the header names that must not be forwarded or relayed
UnsafeNames ==
  {"host", "content-length", "transfer-encoding", "connection", "vary",
   "accept-encoding", "content-encoding", "keep-alive", "proxy-authenticate",
   "proxy-authorization", "te", "trailers", "upgrade"}

NoUnsafeName(headers) == \A h \in DOMAIN headers : LowerName(h) \notin UnsafeNames

C18_SameMethodAndBody ==
  \A i \in 1..Len(originReqs) :
    /\ originReqs[i].method = request.method
    /\ originReqs[i].body = request.raw

\* C20: no log record holds a full credential digest or a full match
\* identifier.
C20_NoFullDigestOrIdLogged ==
  \A i \in 1..Len(log) :
    \A j \in 1..Len(log[i].data) :
      /\ log[i].data[j].t # "digest"
      /\ ~IsUuidShaped(log[i].data[j])

\* C19: the path resolver supports bracketed indices: for the path
\* users[0].email and the body {users: [{email: v}]}, getNestedValue
\* returns v and hasNestedProperty returns true.
C19_BracketIndexResolves ==
  (/\ rPc = "done"
   /\ rPath = <<"users", "[0]", ".", "email">>
   /\ rObj.t = "obj"
   /\ "users" \in DOMAIN rObj.f
   /\ rObj.f["users"].t = "arr")
    => /\ rValue = rObj.f["users"].f["0"].f["email"]
       /\ rHas

\* fingerprinting was entered and has ended without a digest
FingerprintFailed ==
  validResult = "true" /\ pc # "awaitDigest" /\ key = Undefined

\* a username or password of the validated body is not a string
NotAString(b) ==
  b.f["username"].t # "str" \/ b.f["password"].t # "str"

\* C21: a failure while fingerprinting a validated body (a username or
\* password that is not a string, or a digest error) is caught: no digest is
\* produced, no lookup is made, the request is forwarded with the detection
\* header "false", and the pipeline fails only if the origin call fails.
C21_FingerprintFailureForwards ==
  /\ (validResult = "true" /\ NotAString(body)) => FingerprintFailed
  /\ FingerprintFailed =>
       /\ lookupReqs = <<>>
       /\ id = JNull
       /\ Len(originReqs) = 1
       /\ DetectionHeader(1) = "false"
       /\ pc = "rejected" => OriginFailed

C21_Witness ==
  /\ validResult = "true"
  /\ body.f["username"].t = "arr"
  /\ AuthPresent
  /\ pc = "responded"

\* the match identifier that the invocation's own lookup answer carries
OwnMatch(inv) ==
  IF /\ inv.lookupResp.kind = "response" /\ inv.lookupResp.ok
     /\ inv.pc # "awaitLookupJson"
     /\ JsonParses(inv.lookupResp.text)
     /\ inv.lookupResp.text.v.t = "obj"
     /\ "id" \in DOMAIN inv.lookupResp.text.v.f
     /\ IsUuidShaped(inv.lookupResp.text.v.f["id"])
  THEN inv.lookupResp.text.v.f["id"] ELSE JNull

\* what the invocation sent and answered follows from its own request and
\* from the answers to its own sub-requests
OwnOutcome(inv) ==
  /\ \A i \in 1..Len(inv.originReqs) :
       /\ inv.originReqs[i].headers[NO_MORE_LEAKS_HEADER] =
            IF OwnMatch(inv) # JNull THEN "true" ELSE "false"
       /\ inv.originReqs[i].url = inv.request.url
  /\ \A i \in 1..Len(inv.reports) :
       /\ inv.reports[i].id = OwnMatch(inv)
       /\ inv.reports[i].group = inv.request.host
       /\ inv.reports[i].auth = inv.request.authVar
  /\ (OwnMatch(inv) # JNull /\ inv.pc = "responded" /\ inv.originResp.ok) =>
       Len(inv.reports) = 1
  /\ inv.response # NoResponse =>
       /\ inv.response.status = inv.originResp.status
       /\ inv.response.body = inv.originResp.body

\* C22: concurrent requests are independent: when two invocations
\* interleave at their suspension points, the detection header, the report
\* call and the relayed response of each depend only on its own request and
\* on the answers to its own sub-requests.
C22_InvocationsIndependent ==
  /\ OwnOutcome(Running)
  /\ \A i \in 1..Len(parked) : OwnOutcome(parked[i])

C22_Witness ==
  /\ pc = "responded" /\ id = UUID /\ Len(reports) = 1
  /\ request.host = "a.example.com"
  /\ parked # <<>>
  /\ parked[1].pc = "awaitOrigin" /\ parked[1].id = JNull
  /\ parked[1].lookupReqs # <<>>

\* the inbound headers that are not unsafe, by the name the client sent
SafeInbound == {h \in DOMAIN request.headers : LowerName(h) \notin UnsafeNames}

\* the origin sub-request carries every safe inbound header unchanged,
\* unless the pipeline sets a header of that name itself
KeepsSafeInbound(headers, injected) ==
  \A h \in SafeInbound :
    LowerName(h) \notin injected =>
      /\ LowerName(h) \in DOMAIN headers
      /\ headers[LowerName(h)] = request.headers[h]

\* C23 as claimed: the headers of the origin sub-request are the inbound
\* headers minus the unsafe set plus one injected header, the detection
\* header; no other header is added or changed.
C23_OnlyDetectionHeaderInjected ==
  \A i \in 1..Len(originReqs) :
    /\ DOMAIN originReqs[i].headers =
         {LowerName(h) : h \in SafeInbound} \cup {NO_MORE_LEAKS_HEADER}
    /\ KeepsSafeInbound(originReqs[i].headers, {NO_MORE_LEAKS_HEADER})

\* C23 as amended: the headers of the origin sub-request are the inbound
\* headers minus the unsafe set plus two injected headers, ew-bypass with
\* the value "true" and the detection header; no other header is added or
\* changed.
C23_DetectionAndBypassInjected ==
  \A i \in 1..Len(originReqs) :
    /\ DOMAIN originReqs[i].headers =
         {LowerName(h) : h \in SafeInbound} \cup {NO_MORE_LEAKS_HEADER, "ew-bypass"}
    /\ KeepsSafeInbound(originReqs[i].headers, {NO_MORE_LEAKS_HEADER, "ew-bypass"})
    /\ originReqs[i].headers["ew-bypass"] = "true"
    /\ originReqs[i].headers[NO_MORE_LEAKS_HEADER] \in {"true", "false"}

C23_Witness ==
  /\ originReqs # <<>>
  /\ "Host" \in DOMAIN request.headers
  /\ "Content-Type" \in DOMAIN request.headers
  /\ "content-type" \in DOMAIN originReqs[1].headers
  /\ "ew-bypass" \in DOMAIN originReqs[1].headers

\* C24: for every body and every path, hasNestedProperty(body, path) equals
\* getNestedValue(body, path) !== undefined, and neither function throws:
\* an absent field, a non-object intermediate value or a malformed path
\* resolves to undefined / false.
C24_HasIffValueDefined ==
  rPc = "done" =>
    /\ rValue # Thrown
    /\ rHas <=> rValue # Undefined

C24_Witness ==
  /\ rPc = "done"
  /\ rObj = JObj([k \in {"user"} |-> JObj([k2 \in {"email"} |-> JNull])])
  /\ rPath = <<"user", ".", "email">>
  /\ rValue = JNull
  /\ rHas

\* the username and password an invocation took from its body
UnameOf(inv) == inv.body.f["username"].s
PasswdOf(inv) == inv.body.f["password"].s

\* two strings of the same letters, whatever the case of each letter
SameLetters(x, y) ==
  /\ Len(x) = Len(y)
  /\ \A i \in 1..Len(x) : {x[i], y[i]} \subseteq {"a", "A"}

\* both invocations have built their fingerprint input
BothFingerprinted ==
  /\ parked # <<>>
  /\ fingerprint # Undefined
  /\ parked[1].fingerprint # Undefined

\* C25: the fingerprint input is case-insensitive in the username only: two
\* logins whose usernames differ only in letter case and whose passwords
\* are identical get the same fingerprint input, the same digest and the
\* same lookup key; two logins whose passwords differ in letter case get
\* different fingerprint inputs.
C25_CaseFoldsUsernameOnly ==
  BothFingerprinted =>
    /\ (SameLetters(UnameOf(Running), UnameOf(parked[1]))
          /\ PasswdOf(Running) = PasswdOf(parked[1])) =>
         /\ fingerprint = parked[1].fingerprint
         /\ (key # Undefined /\ parked[1].key # Undefined) => key = parked[1].key
         /\ (lookupReqs # <<>> /\ parked[1].lookupReqs # <<>>) =>
              lookupReqs[1].hash = parked[1].lookupReqs[1].hash
    /\ (SameLetters(UnameOf(Running), UnameOf(parked[1]))
          /\ SameLetters(PasswdOf(Running), PasswdOf(parked[1]))
          /\ PasswdOf(Running) # PasswdOf(parked[1])) =>
         fingerprint # parked[1].fingerprint

C25_Witness ==
  /\ BothFingerprinted
  /\ UnameOf(Running) = <<"A", "a">>
  /\ UnameOf(parked[1]) = <<"a", "A">>
  /\ lookupReqs # <<>>
  /\ parked[1].lookupReqs # <<>>
  /\ lookupReqs[1].hash = parked[1].lookupReqs[1].hash

\* the two invocations got the same two values, in swapped fields
FieldsSwapped ==
  /\ UnameOf(Running) = PasswdOf(parked[1])
  /\ PasswdOf(Running) = UnameOf(parked[1])

\* C26 as claimed: normalization is order-sensitive for all valid pairs:
\* a login with the two fields swapped gets a different fingerprint input.
C26_SwapGivesDifferentInput ==
  (BothFingerprinted /\ FieldsSwapped) => fingerprint # parked[1].fingerprint

\* C26 as amended: for all valid pairs whose username and password have
\* the same length and are different strings, a login with the two fields
\* swapped gets a different fingerprint input.
C26_SwapOfEqualLengthDiffers ==
  (/\ BothFingerprinted
   /\ FieldsSwapped
   /\ Len(UnameOf(Running)) = Len(PasswdOf(Running))
   /\ UnameOf(Running) # PasswdOf(Running))
    => fingerprint # parked[1].fingerprint

C26_Witness ==
  /\ BothFingerprinted
  /\ FieldsSwapped
  /\ UnameOf(Running) = <<"a", "a", "a">>
  /\ PasswdOf(Running) = <<"a", "A", "a">>
  /\ fingerprint # parked[1].fingerprint
  /\ parked[1].key # Undefined

\* the log holds the error record of registerPositiveMatch
ReportFailureLogged ==
  \E j \in 1..Len(log) :
    log[j].lvl = "error" /\ log[j].msg = "problem calling POSITIVE_MATCH_URL"

\* C27: every failure of the report call leaves a diagnostic log record,
\* a failure after the call was dispatched (network error, rejected
\* sub-request) as well as a failure at dispatch.
C27_ReportFailureLogged == ReportHasFailed => ReportFailureLogged

\* the inbound request carries a header with the detection header's name
InboundClaimsDetection ==
  \E h \in DOMAIN request.headers : LowerName(h) = NO_MORE_LEAKS_HEADER

\* C28: the detection header sent to the origin follows from the lookup
\* outcome of the request alone: a header of that name in the inbound
\* request is overwritten and its value never reaches the origin.
C28_InboundDetectionOverwritten ==
  \A i \in 1..Len(originReqs) :
    DetectionHeader(i) = IF OwnMatch(Running) # JNull THEN "true" ELSE "false"

C28_Witness ==
  /\ InboundClaimsDetection
  /\ request.headers[NO_MORE_LEAKS_HEADER] = "true"
  /\ lookupResp.kind = "response"
  /\ originReqs # <<>>
  /\ DetectionHeader(1) = "false"

\* C29: in every reachable state a non-null match identifier implies that
\* the body passed validation, a digest was computed, the auth credential
\* was present and the lookup answered with success and an id of 36
\* characters; hence every report call carries a non-null auth credential.
C29_MatchImpliesFullDetection ==
  /\ id # JNull =>
       /\ validResult = "true"
       /\ MeetsPolicy(body)
       /\ DigestComputed
       /\ AuthPresent
       /\ authHeader # JNull
       /\ Len(lookupReqs) = 1
       /\ lookupResp.kind = "response" /\ lookupResp.ok
       /\ JsonParses(lookupResp.text)
       /\ IsUuidShaped(LookupDoc.f["id"])
       /\ id = LookupDoc.f["id"]
  /\ \A i \in 1..Len(reports) :
       reports[i].auth # JNull /\ Truthy(reports[i].auth)

C29_Witness ==
  /\ id = UUID2
  /\ Len(reports) = 1
  /\ reports[1].auth = BasicAuth
  /\ reports[1].state = "done"

====
